---- MODULE Spec2Model ----
(***************************************************************************)
(* A model of comdetect's edge list (src/src/edges.c): the radix sort of   *)
(* an edge list by either endpoint column, the identifier map built over   *)
(* the process-wide hsearch(3) table, and the IdmapStorage that keeps the  *)
(* table's entries; with the cut marking and the Girvan-Newman driver      *)
(* declared in src/include/graph.h.                                        *)
(*                                                                         *)
(* C arrays are 0-based and TLA+ sequences 1-based: the element the code   *)
(* calls a[i] is a[i + 1] here.  The loop counters keep the code's values. *)
(***************************************************************************)
EXTENDS Integers, Sequences, FiniteSets, TLC

\* ---------------------------------------------------------------- bounds
\* Raw edges of an edge list handed to the sort.
MaxEdges == 2
\* Calls of sortEdges in one run.
MaxSorts == 2
\* Edges of an edge list handed to mapNodeIds, and calls of it in one process.
MaxMapEdges == 1
MaxBuilds == 2
\* Largest size handed to newIdmapStorage by a direct caller.
MaxStore == 2
\* Nodes of a graph handed to girvanNewman.
MaxNodes == 4

\* Endpoint values: 0 (no radix pass at all), one and two decimal digits,
\* and a ten-digit value, for which sig_digit reaches 10^9 and the next
\* `sig_digit *= base` leaves the range of int.
Values == {0, 2, 10, 1500000000}

\* ------------------------------------------------------- program constants
ICOL == 0
JCOL == 1
base == 10
\* char node_id_str[10], and the 10 bytes of e.key.
KeyBufLen == 10

VARIABLES
    pc,        \* "run", or "exit" once error(EXIT_FAILURE) or abort() was reached
    elist,     \* the EdgeList: [length, nodes = <<column 0, column 1>>, id]
    prev,      \* elist as it was when the last sortEdges was called
    input,     \* elist as it was before the first sortEdges
    hist,      \* the columns sortEdges was called with, in order
    doubled,   \* whether input is a doubled edge list
    idmap,     \* the caller's *idmap: internal index -> external id
    num_nodes, \* the caller's *num_nodes
    htab,      \* the process-wide hsearch(3) table
    store,     \* the IdmapStorage: [size, count, entries]
    built,     \* the edge list the last mapNodeIds was called with
    builds,    \* calls of mapNodeIds so far in this process
    ret,       \* the last lookupNodeId: [called, x, found, index]
    graph,     \* the SparseUGraph: [n, m, index, edges, edge_id]
    num_clusters, \* the number of communities girvanNewman is asked for (k)
    sample,    \* graph->sample: the BFS roots, fixed before the first cut
    iteration, \* the driver's iteration counter, from 1
    gn,        \* the driver's position: "enter", "loop" or "done"
    cuts       \* the number of live edges each iteration so far has cut

sortVars == <<elist, prev, input, hist, doubled>>
mapVars == <<idmap, num_nodes, htab, store, built, builds, ret>>
gnVars == <<graph, num_clusters, sample, iteration, gn, cuts>>
vars == <<pc, elist, prev, input, hist, doubled,
          idmap, num_nodes, htab, store, built, builds, ret,
          graph, num_clusters, sample, iteration, gn, cuts>>

\* ------------------------------------------------------------ int, 32 bits
\* a * b in a 32-bit int, for 0 <= b < 2^15: the low 32 bits of the product,
\* read as two's complement (what imul leaves in the register).
Mul32(a, b) ==
    LET lo == (a % 65536) * b
        hi == ((a \div 65536) * b + (lo \div 65536)) % 65536
    IN  IF hi >= 32768 THEN (hi - 65536) * 65536 + (lo % 65536)
                       ELSE hi * 65536 + (lo % 65536)

Abs(a) == IF a < 0 THEN -a ELSE a

\* C's integer division truncates toward zero; its % takes the dividend's sign.
CDiv(a, b) ==
    IF (a < 0) = (b < 0) THEN Abs(a) \div Abs(b) ELSE -(Abs(a) \div Abs(b))

CMod(a, b) == a - b * CDiv(a, b)

\* --------------------------------------------------------------- edge list
resetEdgeIds(el) == [el EXCEPT !.id = [i \in 1..el.length |-> i - 1]]

\* tcalloc zero-fills the three arrays.
newEdgeList(length) ==
    resetEdgeIds([length |-> length,
                  nodes  |-> <<[i \in 1..length |-> 0], [i \in 1..length |-> 0]>>,
                  id     |-> [i \in 1..length |-> 0]])

\* The edge list a reader fills: newEdgeList, then the endpoints of each line.
EdgeListOf(pairs) ==
    [newEdgeList(Len(pairs)) EXCEPT
        !.nodes = <<[i \in 1..Len(pairs) |-> pairs[i][1]],
                    [i \in 1..Len(pairs) |-> pairs[i][2]]>>]

RECURSIVE LargestFrom(_, _, _, _)
LargestFrom(array, size, i, largest) ==
    IF i >= size THEN largest
    ELSE LargestFrom(array, size, i + 1,
                     IF array[i + 1] > largest THEN array[i + 1] ELSE largest)

\* util's findLargest: max(col[]).
findLargest(array, size) == LargestFrom(array, size, 0, 0)

findLargestEndpoint(el, col) == findLargest(el.nodes[col + 1], el.length)

\* The bucket a key goes to for the digit sig_digit selects (lines 88, 99).
Digit(x, sig_digit) == CMod(CDiv(x, sig_digit), base)

\* lines 87-88: count the keys of each bucket.
RECURSIVE CountLoop(_, _, _, _, _)
CountLoop(el, col, sig_digit, i, bucket) ==
    IF i >= el.length THEN bucket
    ELSE LET d == Digit(el.nodes[col + 1][i + 1], sig_digit)
         IN  CountLoop(el, col, sig_digit, i + 1, [bucket EXCEPT ![d] = @ + 1])

\* lines 93-95: add the count of the previous buckets.
RECURSIVE PrefixLoop(_, _)
PrefixLoop(i, bucket) ==
    IF i >= base THEN bucket
    ELSE PrefixLoop(i + 1, [bucket EXCEPT ![i] = @ + bucket[i - 1]])

\* lines 100-102: one entry moves to its place, its three fields together.
PlaceEntryNoId(semi, loc, el, i, col) ==
    [semi EXCEPT !.nodes[col + 1][loc + 1] = el.nodes[col + 1][i + 1],
                 !.nodes[(1 - col) + 1][loc + 1] = el.nodes[(1 - col) + 1][i + 1]]
PlaceEntry(semi, loc, el, i, col) ==
    [semi EXCEPT !.nodes[col + 1][loc + 1] = el.nodes[col + 1][i + 1],
                 !.nodes[(1 - col) + 1][loc + 1] = el.nodes[(1 - col) + 1][i + 1],
                 !.id[loc + 1] = el.id[i + 1]]

\* line 98: the index the fill loop visits at its step-th iteration (step
\* from 0): it runs from length - 1 down to 0.
FillIndexUp(length, step) == step
FillIndex(length, step) == length - 1 - step

\* lines 98-103: fill the semi sorted list from the buckets.
RECURSIVE FillLoop(_, _, _, _, _, _)
FillLoop(el, col, sig_digit, step, bucket, semi) ==
    IF step >= el.length THEN semi
    ELSE LET i   == FillIndex(el.length, step)
             d   == Digit(el.nodes[col + 1][i + 1], sig_digit)
             loc == bucket[d] - 1
         IN  FillLoop(el, col, sig_digit, step + 1,
                      [bucket EXCEPT ![d] = loc],
                      PlaceEntry(semi, loc, el, i, col))

\* lines 105-109: copy the semi sorted list back.
CopyBack(el, semi) == [el EXCEPT !.nodes = semi.nodes, !.id = semi.id]

\* lines 84-109: one pass of the while loop.
RadixPass(el, col, sig_digit) ==
    LET zero   == [d \in 0..(base - 1) |-> 0]
        bucket == PrefixLoop(1, CountLoop(el, col, sig_digit, 0, zero))
        semi   == FillLoop(el, col, sig_digit, 0, bucket, newEdgeList(el.length))
    IN  CopyBack(el, semi)

\* line 83: loop until the highest significant digit is reached.
MoreDigitsBad(largest, sig_digit) == CDiv(largest, sig_digit) > 1
MoreDigits(largest, sig_digit) == CDiv(largest, sig_digit) > 0

\* line 112: move to the next significant digit, in an int.
NextSigDigit(sig_digit) == Mul32(sig_digit, base)

RECURSIVE RadixLoop(_, _, _, _)
RadixLoop(el, col, largest, sig_digit) ==
    IF MoreDigits(largest, sig_digit)
    THEN RadixLoop(RadixPass(el, col, sig_digit), col, largest,
                   NextSigDigit(sig_digit))
    ELSE el

sortEdges(el, col) == RadixLoop(el, col, findLargestEndpoint(el, col), 1)

\* CSR construction, step 2: for each (u, v, e) both (u, v, e) and (v, u, e).
DoubleOf(el) ==
    [length |-> 2 * el.length,
     nodes  |-> <<[k \in 1..(2 * el.length) |->
                     el.nodes[IF k % 2 = 1 THEN 1 ELSE 2][(k + 1) \div 2]],
                  [k \in 1..(2 * el.length) |->
                     el.nodes[IF k % 2 = 1 THEN 2 ELSE 1][(k + 1) \div 2]]>>,
     id     |-> [k \in 1..(2 * el.length) |-> el.id[(k + 1) \div 2]]]

\* ------------------------------------------------------------ sort: actions
PairSeqs(n) == UNION {[1..m -> Values \X Values] : m \in 0..n}

NoTable == [table |-> FALSE, size |-> 0, filled |-> 0, map |-> <<>>]
NoRet == [called |-> FALSE, x |-> 0, found |-> FALSE, index |-> 0]
NoStore == [size |-> 0, count |-> 0, entries |-> <<>>]

NoGraph == [n |-> 0, m |-> 0, index |-> <<0>>, edges |-> <<>>, edge_id |-> <<>>]

GnIdle ==
    /\ graph = NoGraph
    /\ num_clusters = 1
    /\ sample = <<>>
    /\ iteration = 1
    /\ gn = "done"
    /\ cuts = <<>>

SortIdle ==
    /\ elist = newEdgeList(0)
    /\ prev = elist
    /\ input = elist
    /\ hist = <<>>
    /\ doubled = FALSE

MapIdle ==
    /\ idmap = <<>>
    /\ num_nodes = 0
    /\ htab = NoTable
    /\ store = NoStore
    /\ built = newEdgeList(0)
    /\ builds = 0
    /\ ret = NoRet

InitSort ==
    /\ MapIdle
    /\ GnIdle
    /\ pc = "run"
    /\ elist \in {EdgeListOf(p) : p \in PairSeqs(MaxEdges)}
    /\ prev = elist
    /\ input = elist
    /\ hist = <<>>
    /\ doubled = FALSE

DoubleEdgeList ==
    /\ pc = "run"
    /\ hist = <<>>
    /\ ~doubled
    /\ elist' = DoubleOf(elist)
    /\ input' = elist'
    /\ prev' = elist'
    /\ doubled' = TRUE
    /\ UNCHANGED <<pc, hist>>
    /\ UNCHANGED <<mapVars, gnVars>>

SortEdges(col) ==
    /\ pc = "run"
    /\ Len(hist) < MaxSorts
    /\ prev' = elist
    /\ elist' = sortEdges(elist, col)
    /\ hist' = Append(hist, col)
    /\ UNCHANGED <<pc, input, doubled>>
    /\ UNCHANGED <<mapVars, gnVars>>

NextSort ==
    \/ DoubleEdgeList
    \/ \E col \in {ICOL, JCOL} : SortEdges(col)

SpecSort == InitSort /\ [][NextSort]_vars

\* ------------------------------------------------------------ sort: claims
Triples(el) == [i \in 1..el.length |-> <<el.nodes[1][i], el.nodes[2][i], el.id[i]>>]

Range(s) == {s[i] : i \in 1..Len(s)}

Count(s, t) == Cardinality({i \in 1..Len(s) : s[i] = t})

SameTriples(a, b) ==
    /\ a.length = b.length
    /\ \A t \in Range(Triples(a)) \cup Range(Triples(b)) :
          Count(Triples(a), t) = Count(Triples(b), t)

NonDecreasing(el, col) ==
    \A i \in 1..(el.length - 1) : el.nodes[col + 1][i] <= el.nodes[col + 1][i + 1]

WithKey(el, col, key) ==
    LET Has(t) == t[col + 1] = key IN SelectSeq(Triples(el), Has)

LastCol == hist[Len(hist)]

\* C1: after sortEdges(elist, col) the list holds exactly the (u, v, id)
\* triples it held before, each id and non-sort endpoint with the key it came
\* with, arranged so that nodes[col] is non-decreasing.
C1_SortPermutesAndOrders ==
    hist # <<>> => /\ SameTriples(prev, elist)
                   /\ NonDecreasing(elist, LastCol)

C1_Witness ==
    /\ hist # <<>>
    /\ elist.length >= 2
    /\ ~NonDecreasing(prev, LastCol)
    /\ \E i \in 1..elist.length : elist.nodes[LastCol + 1][i] >= 1000000000

\* C2: sortEdges is stable: the triples with one value in the sort column
\* are, after the sort, in the order they were in before it.
C2_SortStable ==
    hist # <<>> =>
        \A key \in Values : WithKey(elist, LastCol, key) = WithKey(prev, LastCol, key)

C2_Witness ==
    /\ hist # <<>>
    /\ prev # elist
    /\ \E i, j \in 1..elist.length :
          /\ i < j
          /\ elist.nodes[LastCol + 1][i] = elist.nodes[LastCol + 1][j]
          /\ Triples(elist)[i] # Triples(elist)[j]

LexOrdered(el) ==
    \A i \in 1..(el.length - 1) :
        \/ el.nodes[1][i] < el.nodes[1][i + 1]
        \/ /\ el.nodes[1][i] = el.nodes[1][i + 1]
           /\ el.nodes[2][i] <= el.nodes[2][i + 1]

StrictInGroups(el) ==
    \A i \in 1..(el.length - 1) :
        el.nodes[1][i] = el.nodes[1][i + 1] => el.nodes[2][i] < el.nodes[2][i + 1]

NoDuplicateEdges(el) ==
    \A i, j \in 1..el.length :
        (i # j /\ el.nodes[1][i] = el.nodes[1][j]) => el.nodes[2][i] # el.nodes[2][j]

\* C8: sortEdges on the v column and then on the u column leaves a doubled
\* edge list in lexicographic (u, v) order: grouped by source, targets
\* non-decreasing in each group, strictly increasing when the list has no
\* duplicate half-edge, every half-edge with the id it came with.
C8_TwoPassLexicographic ==
    (doubled /\ hist = <<JCOL, ICOL>>) =>
        /\ LexOrdered(elist)
        /\ SameTriples(input, elist)
        /\ NoDuplicateEdges(input) => StrictInGroups(elist)

C8_Witness ==
    /\ doubled
    /\ hist = <<JCOL, ICOL>>
    /\ elist.length = 4
    /\ ~LexOrdered(input)
    /\ ~LexOrdered(prev)
    /\ NoDuplicateEdges(input)
    /\ \E i \in 1..3 : elist.nodes[1][i] = elist.nodes[1][i + 1]
\* ------------------------------------------------------------ hsearch(3)
\* The table is one per process.  Keys are compared as strings: a key is the
\* sequence of its characters, here the decimal digits of the id.
RECURSIVE Digits(_)
\* sprintf(node_id_str, "%d", orig_id) for orig_id >= 0.
Digits(x) == IF x < 10 THEN <<x>> ELSE Append(Digits(x \div 10), x % 10)

\* The digits and the terminating NUL do not fit node_id_str: sprintf writes
\* past the array, and strncpy leaves e.key without a terminator.
Overflows(x) == Len(Digits(x)) + 1 > KeyBufLen

IsPrime(n) == n >= 2 /\ \A d \in 2..(n - 1) : n % d # 0

RECURSIVE NextPrime(_)
NextPrime(n) == IF IsPrime(n) THEN n ELSE NextPrime(n + 2)

\* hcreate(nel): refused (returns 0) while a table exists; else an empty table
\* of the first prime >= max(nel, 3) | 1 slots.
hcreate(h, nel) ==
    IF h.table THEN h
    ELSE LET n == IF nel < 3 THEN 3 ELSE nel
         IN  [table  |-> TRUE,
              size   |-> NextPrime(IF n % 2 = 0 THEN n + 1 ELSE n),
              filled |-> 0,
              map    |-> <<>>]

\* hsearch(e, FIND): the entry with e's key, or NULL.
hsearchFind(h, key) ==
    IF key \in DOMAIN h.map THEN [found |-> TRUE, data |-> h.map[key]]
    ELSE [found |-> FALSE, data |-> 0]

\* hsearch(e, ENTER): the entry already there under e's key, left as it is;
\* else e, entered; NULL when the table is full.
hsearchEnter(h, key, data) ==
    IF key \in DOMAIN h.map THEN [ok |-> TRUE, htab |-> h]
    ELSE IF h.filled = h.size THEN [ok |-> FALSE, htab |-> h]
    ELSE [ok   |-> TRUE,
          htab |-> [h EXCEPT !.filled = @ + 1,
                             !.map = [k \in DOMAIN h.map \cup {key} |->
                                         IF k = key THEN data ELSE h.map[k]]]]

\* ---------------------------------------------------------- IdmapStorage
newIdmapStorage(size) == [size |-> size, count |-> 0, entries |-> <<>>]

\* assert(storage->count <= storage->size)
StorageAssert(storage) == storage.count <= storage.size

\* storage->entries[storage->count++] = *ep.  entries lists what was written
\* at indices 0 .. count - 1; the array has size slots.
addIdmapEntry(storage, e) ==
    [storage EXCEPT !.entries = Append(@, e), !.count = @ + 1]

\* ---------------------------------------------------------- identifier map
\* lines 127-135: the i column, then the j column.
CollectNodes(el) == el.nodes[ICOL + 1] \o el.nodes[JCOL + 1]

RECURSIVE SortedSeq(_)
SortedSeq(S) ==
    IF S = {} THEN <<>>
    ELSE LET m == CHOOSE x \in S : \A y \in S : x <= y
         IN  <<m>> \o SortedSeq(S \ {m})

\* util's removeDuplicates: the distinct values, ascending.
removeDuplicates(nodes) == SortedSeq({nodes[i] : i \in 1..Len(nodes)})

\* (int)(size + size*0.25 + 0.5)
TableSizeFor(size) == (5 * size + 2) \div 4

\* addNodeIdToMap(store, orig_id, node_id) on st = [pc, htab, store].  smash
\* is what the write past node_id_str comes to for an id that overflows it:
\* the process is aborted, or goes on with the digits as the key.
addNodeIdToMap(st, orig_id, node_id, smash) ==
    IF st.pc # "run" THEN st
    ELSE IF Overflows(orig_id) /\ smash THEN [st EXCEPT !.pc = "exit"]
    ELSE LET key == Digits(orig_id)
             r   == hsearchEnter(st.htab, key, node_id)
         IN  IF ~r.ok THEN [st EXCEPT !.pc = "exit"]
             ELSE IF ~StorageAssert(st.store)
             THEN [st EXCEPT !.pc = "exit", !.htab = r.htab]
             ELSE [st EXCEPT !.htab = r.htab,
                             !.store = addIdmapEntry(@, [key |-> key, data |-> node_id])]

\* lines 145-147
RECURSIVE AddLoop(_, _, _, _, _)
AddLoop(st, nodes, size, i, smash) ==
    IF i >= size THEN st
    ELSE AddLoop(addNodeIdToMap(st, nodes[i + 1], i, smash), nodes, size, i + 1, smash)

\* line 140: realloc(nodes, size * sizeof(int)) keeps the block where it is or
\* moves it; if it moves, the loop of lines 145-147 reads nodes[i] from the
\* freed block, whose contents (junk) are indeterminate.
NodesAfterRealloc(unique, moved, junk) == IF moved THEN junk ELSE unique

\* ------------------------------------------------------------- map: actions
InitMap ==
    /\ pc = "run"
    /\ SortIdle
    /\ GnIdle
    /\ MapIdle

MapNodeIds(el, moved, junk, smash) ==
    /\ pc = "run"
    /\ builds < MaxBuilds
    /\ LET unique == removeDuplicates(CollectNodes(el))
           size   == Len(unique)
           nodes  == NodesAfterRealloc(unique, moved, junk)
           st     == AddLoop([pc    |-> "run",
                              htab  |-> hcreate(htab, TableSizeFor(size)),
                              store |-> newIdmapStorage(size)],
                             nodes, size, 0, smash)
       IN  /\ Len(junk) = size
           /\ num_nodes' = size
           /\ idmap' = unique
           /\ htab' = st.htab
           /\ store' = st.store
           /\ pc' = st.pc
    /\ built' = el
    /\ builds' = builds + 1
    /\ ret' = NoRet
    /\ UNCHANGED <<sortVars, gnVars>>

\* lookupNodeId(orig_id)
LookupNodeId(orig_id, smash) ==
    /\ pc = "run"
    /\ builds >= 1
    /\ IF Overflows(orig_id) /\ smash
       THEN /\ pc' = "exit"
            /\ ret' = [called |-> TRUE, x |-> orig_id, found |-> FALSE, index |-> 0]
       ELSE LET ep == hsearchFind(htab, Digits(orig_id))
            IN  /\ pc' = IF ep.found THEN "run" ELSE "exit"
                /\ ret' = [called |-> TRUE, x |-> orig_id,
                           found |-> ep.found, index |-> ep.data]
    /\ UNCHANGED <<idmap, num_nodes, htab, store, built, builds>>
    /\ UNCHANGED <<sortVars, gnVars>>

JunkSeqs(n) == UNION {[1..m -> Values] : m \in 0..n}

\* Any edge list, either outcome of realloc and of the overflowing sprintf.
MapAnyEdgeList ==
    \E el \in {EdgeListOf(p) : p \in PairSeqs(MaxMapEdges)} :
       \E moved \in BOOLEAN, smash \in BOOLEAN :
          \E junk \in JunkSeqs(2 * el.length) :
             /\ ~moved => junk = removeDuplicates(CollectNodes(el))
             /\ MapNodeIds(el, moved, junk, smash)

LookupAnyId == \E x \in Values, smash \in BOOLEAN : LookupNodeId(x, smash)

NextMap == MapAnyEdgeList \/ LookupAnyId

SpecMap == InitMap /\ [][NextMap]_vars

\* The runs of SpecMap in which realloc keeps the shrunk block where it is
\* (as glibc's does) and the byte written past node_id_str does no harm: what
\* fails in these runs fails whatever the allocator does.
NextMapInPlace ==
    \/ \E el \in {EdgeListOf(p) : p \in PairSeqs(MaxMapEdges)} :
          MapNodeIds(el, FALSE, removeDuplicates(CollectNodes(el)), FALSE)
    \/ \E x \in Values : LookupNodeId(x, FALSE)

SpecMapInPlace == InitMap /\ [][NextMapInPlace]_vars

\* ------------------------------------------------------ IdmapStorage: actions
Entries == [key : {Digits(v) : v \in Values}, data : 0..1]

InitStore ==
    /\ pc = "run"
    /\ SortIdle
    /\ GnIdle
    /\ idmap = <<>>
    /\ num_nodes = 0
    /\ htab = NoTable
    /\ built = newEdgeList(0)
    /\ builds = 0
    /\ ret = NoRet
    /\ store \in {newIdmapStorage(size) : size \in 0..MaxStore}

NewIdmapStorage(size) ==
    /\ pc = "run"
    /\ store' = newIdmapStorage(size)
    /\ UNCHANGED <<pc, idmap, num_nodes, htab, built, builds, ret>>
    /\ UNCHANGED <<sortVars, gnVars>>

\* A failed assert aborts the process.
AddIdmapEntry(e) ==
    /\ pc = "run"
    /\ IF StorageAssert(store)
       THEN /\ store' = addIdmapEntry(store, e)
            /\ pc' = pc
       ELSE /\ pc' = "exit"
            /\ store' = store
    /\ UNCHANGED <<idmap, num_nodes, htab, built, builds, ret>>
    /\ UNCHANGED <<sortVars, gnVars>>

NextStore ==
    \/ \E size \in 0..MaxStore : NewIdmapStorage(size)
    \/ \E e \in Entries : AddIdmapEntry(e)

SpecStore == InitStore /\ [][NextStore]_vars

\* -------------------------------------------------------------- map: claims
Endpoints(el) == {el.nodes[c][i] : c \in 1..2, i \in 1..el.length}

Lookup(x) == hsearchFind(htab, Digits(x))

\* mapNodeIds was called and returned, and no later call ended the process.
Built == builds >= 1 /\ pc = "run"

\* C3: after mapNodeIds, idmap[lookupNodeId(x)] = x for every endpoint x of
\* the edge list, and lookupNodeId(idmap[i]) = i for every i in [0, num_nodes).
C3_RoundTrip ==
    Built =>
        /\ \A x \in Endpoints(built) :
              /\ Lookup(x).found
              /\ Lookup(x).data \in 0..(Len(idmap) - 1)
              /\ idmap[Lookup(x).data + 1] = x
        /\ \A i \in 0..(num_nodes - 1) :
              /\ Lookup(idmap[i + 1]).found
              /\ Lookup(idmap[i + 1]).data = i

\* C4: on return from mapNodeIds, num_nodes is the number of distinct
\* endpoints of the edge list, idmap[0..num_nodes) is strictly increasing and
\* holds exactly those values, and each value is mapped to its position.
C4_DenseAscending ==
    Built =>
        /\ num_nodes = Cardinality(Endpoints(built))
        /\ Len(idmap) = num_nodes
        /\ \A i \in 1..(num_nodes - 1) : idmap[i] < idmap[i + 1]
        /\ Range(idmap) = Endpoints(built)
        /\ \A i \in 1..num_nodes : Lookup(idmap[i]) = [found |-> TRUE, data |-> i - 1]

\* C5: lookupNodeId(x) ends the process with the unknown-node error, and
\* returns no index, for every x that was no endpoint of the build set, and
\* returns an index without error for every x that was.
C5_UnknownNodeIffNotBuilt ==
    ret.called =>
        /\ ret.found <=> ret.x \in Endpoints(built)
        /\ ret.found <=> pc = "run"

\* C9: after a second mapNodeIds in the same process, lookupNodeId(x) is the
\* position of x among the sorted distinct endpoints of the last edge list,
\* and nothing an earlier build left in the table is returned.
C9_LatestBuildOnly ==
    (builds >= 2 /\ pc = "run") =>
        \A x \in Values :
            IF x \in Endpoints(built)
            THEN /\ Lookup(x).found
                 /\ SortedSeq(Endpoints(built))[Lookup(x).data + 1] = x
            ELSE ~Lookup(x).found

\* C10: count <= size after any sequence of addIdmapEntry calls that pass the
\* function's assertion; every entry was written at an index below size.
C10_StorageNeverOverflows == store.count <= store.size

\* ---------------------------------------------------------------- CSR graph
\* An edge of the graph is live when its id is positive, cut when negative.
Live(g, p) == g.edge_id[p + 1] > 0

\* CSR construction: the doubled list sorted by target, then by source;
\* index is the prefix sum of the source groups.  sortEdges carries id with
\* every half-edge, so the half-edges have the id resetEdgeIds gave their
\* edge in the edge list, 0 .. m - 1: the ids that index edge_bet, of size
\* |E| (graph.h line 62).
rowCompressEdges(el, n) ==
    LET s == sortEdges(sortEdges(DoubleOf(el), JCOL), ICOL)
    IN  [n       |-> n,
         m       |-> el.length,
         index   |-> [i \in 1..(n + 1) |->
                        Cardinality({p \in 1..s.length : s.nodes[ICOL + 1][p] < i - 1})],
         edges   |-> s.nodes[JCOL + 1],
         edge_id |-> s.id]

\* degree[i] = index[i+1] - index[i]; cuts do not change it.
degree(g, node) == g.index[node + 2] - g.index[node + 1]

\* The position of the half-edge src -> dest (the slice of src is searched
\* for dest), or -1.
FindHalfEdge(g, src, dest) ==
    LET ps == {p \in g.index[src + 1]..(g.index[src + 2] - 1) : g.edges[p + 1] = dest}
    IN  IF ps = {} THEN -1 ELSE CHOOSE p \in ps : TRUE

findEdgeId(g, src, dest) == g.edge_id[FindHalfEdge(g, src, dest) + 1]

\* Cut an edge by marking it with the negative of the iteration number in
\* which it was cut: both half-edges.
cutEdgeOneWay(g, src, dest, iter) ==
    [g EXCEPT !.edge_id[FindHalfEdge(g, src, dest) + 1] = -iter]
cutEdge(g, src, dest, iter) ==
    [g EXCEPT !.edge_id[FindHalfEdge(g, src, dest) + 1] = -iter,
              !.edge_id[FindHalfEdge(g, dest, src) + 1] = -iter]

\* sampleNodes: the count nodes of highest degree, ties by ascending index.
RECURSIVE TopByDegree(_, _, _)
TopByDegree(g, left, count) ==
    IF count = 0 \/ left = {} THEN <<>>
    ELSE LET best == CHOOSE v \in left : \A w \in left :
                        \/ degree(g, v) > degree(g, w)
                        \/ degree(g, v) = degree(g, w) /\ v <= w
         IN  <<best>> \o TopByDegree(g, left \ {best}, count - 1)

sampleNodes(g, count) == TopByDegree(g, 0..(g.n - 1), count)

\* ---------------------------------------------------------------------- BFS
newBFSInfo(g, src) ==
    [distance |-> [v \in 0..(g.n - 1) |-> IF v = src THEN 0 ELSE -1],
     sigma    |-> [v \in 0..(g.n - 1) |-> IF v = src THEN 1 ELSE 0],
     parent   |-> [v \in 0..(g.n - 1) |-> -1],
     pred     |-> [v \in 0..(g.n - 1) |-> <<>>],
     stack    |-> <<>>,
     queue    |-> <<src>>]

\* One half-edge u -> v met by the scan of u's slice.
Visit(info, u, v) ==
    LET found == IF info.distance[v] = -1
                 THEN [info EXCEPT !.distance[v] = info.distance[u] + 1,
                                   !.parent[v] = u,
                                   !.queue = Append(@, v)]
                 ELSE info
    IN  IF found.distance[v] = found.distance[u] + 1
        THEN [found EXCEPT !.sigma[v] = @ + found.sigma[u],
                           !.pred[v] = Append(@, u)]
        ELSE found

RECURSIVE ScanSlice(_, _, _, _)
ScanSlice(g, info, u, p) ==
    IF p >= g.index[u + 2] THEN info
    ELSE ScanSlice(g, IF Live(g, p) THEN Visit(info, u, g.edges[p + 1]) ELSE info,
                   u, p + 1)

RECURSIVE BfsLoop(_, _)
BfsLoop(g, info) ==
    IF info.queue = <<>> THEN info
    ELSE LET u == Head(info.queue)
         IN  BfsLoop(g, ScanSlice(g, [info EXCEPT !.queue = Tail(@),
                                                  !.stack = Append(@, u)],
                                  u, g.index[u + 1]))

bfs(g, src) == BfsLoop(g, newBFSInfo(g, src))

\* ------------------------------------------------------- edge betweenness
\* Scores are kept in twelfths: with at most five nodes every sigma is 1, 2
\* or 3, so every score is a multiple of 1/6 (and exact in a float).
Unit == 2 * 6

\* for each u in pred[w]: c = sigma[u] / sigma[w] * (1 + delta[w])
RECURSIVE PredLoop(_, _, _, _, _)
PredLoop(g, info, w, j, acc) ==
    IF j > Len(info.pred[w]) THEN acc
    ELSE LET u == info.pred[w][j]
             c == (info.sigma[u] * (Unit + acc.delta[w])) \div info.sigma[w]
         IN  PredLoop(g, info, w, j + 1,
                      [acc EXCEPT !.delta[u] = @ + c,
                                  !.edge_bet[findEdgeId(g, u, w)] = @ + c])

\* The stack is drained from its end: non-increasing distance from src.
RECURSIVE DrainStack(_, _, _, _)
DrainStack(g, info, top, acc) ==
    IF top = 0 THEN acc
    ELSE DrainStack(g, info, top - 1, PredLoop(g, info, info.stack[top], 1, acc))

RECURSIVE SampleLoop(_, _, _, _)
SampleLoop(g, roots, j, edge_bet) ==
    IF j > Len(roots) THEN edge_bet
    ELSE LET info == bfs(g, roots[j])
             acc  == DrainStack(g, info, Len(info.stack),
                                [delta    |-> [v \in 0..(g.n - 1) |-> 0],
                                 edge_bet |-> edge_bet])
         IN  SampleLoop(g, roots, j + 1, acc.edge_bet)

LiveIds(g) == {g.edge_id[p] : p \in 1..Len(g.edge_id)} \cap 1..g.m

\* calculateEdgeBetweenness: edge_bet from zero, one BFS per sampled root;
\* returns the live edges whose score is the maximum.
calculateEdgeBetweenness(g, roots) ==
    LET edge_bet == SampleLoop(g, roots, 1, [e \in 0..(g.m - 1) |-> 0])
    IN  {e \in LiveIds(g) : \A f \in LiveIds(g) : edge_bet[f] <= edge_bet[e]}

\* The endpoints of the live edge with this id, source below target.
EndsOf(g, e) ==
    CHOOSE ab \in (0..(g.n - 1)) \X (0..(g.n - 1)) :
        /\ ab[1] < ab[2]
        /\ FindHalfEdge(g, ab[1], ab[2]) >= 0
        /\ findEdgeId(g, ab[1], ab[2]) = e

RECURSIVE CutAll(_, _, _)
CutAll(g, largest, iter) ==
    IF largest = {} THEN g
    ELSE LET e  == CHOOSE x \in largest : \A y \in largest : x <= y
             ab == EndsOf(g, e)
         IN  CutAll(cutEdge(g, ab[1], ab[2], iter), largest \ {e}, iter)

\* labelCommunities: the number of connected components of the live graph.
RECURSIVE Component(_, _)
Component(g, S) ==
    LET T == S \cup {g.edges[p + 1] : p \in
                        {q \in 0..(2 * g.m - 1) :
                            /\ Live(g, q)
                            /\ \E u \in S : g.index[u + 1] <= q /\ q < g.index[u + 2]}}
    IN  IF T = S THEN S ELSE Component(g, T)

labelCommunities(g) == Cardinality({Component(g, {v}) : v \in 0..(g.n - 1)})

\* ------------------------------------------------------------ driver: actions
NodePairs == {ab \in (0..(MaxNodes - 1)) \X (0..(MaxNodes - 1)) : ab[1] < ab[2]}

PairBefore(a, b) == a[1] < b[1] \/ (a[1] = b[1] /\ a[2] <= b[2])

RECURSIVE PairsInOrder(_)
PairsInOrder(E) ==
    IF E = {} THEN <<>>
    ELSE LET first == CHOOSE a \in E : \A b \in E : PairBefore(a, b)
         IN  <<first>> \o PairsInOrder(E \ {first})

NodesOf(E) == {ab[1] : ab \in E} \cup {ab[2] : ab \in E}

\* The edge lists whose endpoints the identifier map made dense: 0 .. n - 1.
DenseEdgeSets ==
    {E \in SUBSET NodePairs : E # {} /\ NodesOf(E) = 0..(Cardinality(NodesOf(E)) - 1)}

InitGN ==
    /\ pc = "run"
    /\ SortIdle
    /\ MapIdle
    /\ \E E \in DenseEdgeSets :
          graph = rowCompressEdges(EdgeListOf(PairsInOrder(E)), Cardinality(NodesOf(E)))
    /\ num_clusters \in 1..(MaxNodes + 1)
    /\ \E count \in 1..graph.n : sample = sampleNodes(graph, count)
    /\ iteration = 1
    /\ gn = "enter"
    /\ cuts = <<>>

\* The loop ends when the live graph has k components or no edge is left.
Decide(g) ==
    IF labelCommunities(g) >= num_clusters \/ LiveIds(g) = {} THEN "done" ELSE "loop"

GirvanNewmanEnter ==
    /\ pc = "run"
    /\ gn = "enter"
    /\ gn' = Decide(graph)
    /\ UNCHANGED <<pc, graph, num_clusters, sample, iteration, cuts>>
    /\ UNCHANGED <<sortVars, mapVars>>

GirvanNewmanIteration ==
    /\ pc = "run"
    /\ gn = "loop"
    /\ LET largest == calculateEdgeBetweenness(graph, sample)
           cut     == CutAll(graph, largest, iteration)
       IN  /\ graph' = cut
           /\ cuts' = Append(cuts, Cardinality(LiveIds(graph)) - Cardinality(LiveIds(cut)))
           /\ gn' = Decide(cut)
           /\ iteration' = IF Decide(cut) = "done" THEN iteration ELSE iteration + 1
    /\ UNCHANGED <<pc, num_clusters, sample>>
    /\ UNCHANGED <<sortVars, mapVars>>

NextGN == GirvanNewmanEnter \/ GirvanNewmanIteration

SpecGN == InitGN /\ [][NextGN]_vars

\* What every step of NextGN does to the driver's position: it leaves the
\* entry test or ends an iteration, and no other step changes gn or
\* iteration.
Advance ==
    /\ gn # "done"
    /\ gn' \in {"loop", "done"}
    /\ iteration' \in {iteration, iteration + 1}

\* girvanNewman is one call running to its return: until it returns, nothing
\* but its own loop keeps it from taking the next step.
SpecGNFair == SpecGN /\ WF_<<gn, iteration>>(Advance)

\* ------------------------------------------------------------ driver: claims
\* Every iteration so far cut at least one live edge, there were at most m of
\* them, and the driver is in its loop only while a live edge is left.
IterationsCutLiveEdges ==
    /\ \A i \in 1..Len(cuts) : cuts[i] >= 1
    /\ Len(cuts) <= graph.m
    /\ gn = "loop" => LiveIds(graph) # {}
    /\ gn = "loop" => iteration = Len(cuts) + 1

\* C6: the driver terminates: every iteration cuts at least one live edge,
\* so the live edges strictly decrease from one iteration to the next, and
\* the driver returns after at most m iterations, whatever k is.
C6_DriverTerminates == []IterationsCutLiveEdges /\ <>(gn = "done")

C6_Witness ==
    /\ gn = "done"
    /\ Len(cuts) >= 2
    /\ labelCommunities(graph) < num_clusters

Mate(g, p) ==
    LET src == CHOOSE u \in 0..(g.n - 1) : g.index[u + 1] <= p /\ p < g.index[u + 2]
    IN  FindHalfEdge(g, g.edges[p + 1], src)

\* C7: in every state reached after driver iterations, the two half-edges
\* of an undirected edge are either both positive (live) or both negative
\* (cut), never zero.
C7_CutMarksSymmetricNonzero ==
    cuts # <<>> =>
        \A p \in 0..(2 * graph.m - 1) :
            /\ graph.edge_id[p + 1] # 0
            /\ (graph.edge_id[p + 1] > 0) = (graph.edge_id[Mate(graph, p) + 1] > 0)
====
